---- MODULE Spec2Model ----
(***************************************************************************)
(* Structured errors and log attributes (package serror, internal,        *)
(* loghelper).  The state is the heap a client of the library builds:     *)
(* error values, the backing arrays of their stack slices, contexts and   *)
(* the attribute maps contexts point to.  An action is one call of an     *)
(* exported function; where call paths run concurrently (calls) it is one *)
(* step of a call.                                                        *)
(***************************************************************************)
EXTENDS Integers, Sequences, FiniteSets, TLC

VARIABLES errs, arrs, ctxs, maps, ret, calls

vars == <<errs, arrs, ctxs, maps, ret, calls>>

----------------------------------------------------------------------------
(* Bounds of the model *)

\* error values a run may build
MaxErrs == 2
\* contexts a run may derive
MaxCtxs == 3
\* length of a variadic argument list
MaxArgs == 1

----------------------------------------------------------------------------
(* Program constants *)

errKey == "error"
msgKey == "msg"
stackKey == "stack"
badKey == "!BADKEY"

----------------------------------------------------------------------------
(* slog values and attributes *)

IntValue(n) == [kind |-> "Int64", n |-> n, s |-> "", g |-> <<>>]
StringValue(s) == [kind |-> "String", n |-> 0, s |-> s, g |-> <<>>]
\* a value of KindAny: tag names the dynamic type held, ref the object
AnyOf(tag, ref) == [kind |-> "Any", n |-> ref, s |-> tag, g |-> <<>>]
\* a value of KindLogValuer: g is the group its LogValue method renders
LogValuerOf(g) == [kind |-> "LogValuer", n |-> 0, s |-> "", g |-> g]
\* slog.Value{}: KindAny holding nil
ZeroValue == AnyOf("nil", 0)

MkAttr(k, v) == [Key |-> k, Value |-> v]
\* slog.Attr{}
ZeroAttr == MkAttr("", ZeroValue)

\* make(map[string]slog.Attr)
EmptyMap == [k \in {} |-> ZeroAttr]

isEmptyGroup(v) == v.kind = "Group" /\ Len(v.g) = 0

\* slog.GroupValue drops the members that are empty groups
GroupValue(as) ==
  [kind |-> "Group", n |-> 0, s |-> "",
   g |-> SelectSeq(as, LAMBDA a : ~isEmptyGroup(a.Value))]

\* byte order of the attribute names the model uses ('!' < 'a' < 'e' < 'm' < 'x')
KeyOrder == <<"", badKey, "a", errKey, msgKey, "x">>

KeyLess(k1, k2) ==
  \E i, j \in DOMAIN KeyOrder : KeyOrder[i] = k1 /\ KeyOrder[j] = k2 /\ i < j

\* the names of a set, ascending
SortedKeys(S) == SelectSeq(KeyOrder, LAMBDA k : k \in S)

----------------------------------------------------------------------------
(* Origins and stack traces *)

EmptyOrigin == [File |-> "", Line |-> 0]
Site1 == [File |-> "a.go", Line |-> 1]
Site2 == [File |-> "b.go", Line |-> 2]
Site3 == [File |-> "c.go", Line |-> 3]

\* what getOrigin reports where the callers create errors, and where they
\* wrap them: the call site, or the zero Origin when runtime.Caller fails
NewSites == {Site1, EmptyOrigin}
WrapSites == {Site2, EmptyOrigin}

OriginEmpty(o) == o.File = ""
OriginString(o) == o.File \o ":" \o ToString(o.Line)

\* a slice header over a backing array of arrs
NilSlice == [arr |-> 0, len |-> 0]
SliceElems(sl) == IF sl.arr = 0 THEN <<>> ELSE SubSeq(arrs[sl.arr], 1, sl.len)
SliceCap(sl) == IF sl.arr = 0 THEN 0 ELSE Len(arrs[sl.arr])

RECURSIVE Join(_)
Join(ss) ==
  IF Len(ss) = 0 THEN ""
  ELSE IF Len(ss) = 1 THEN ss[1]
  ELSE ss[1] \o " " \o Join(Tail(ss))

StackTraceString(st) == Join([i \in DOMAIN st |-> OriginString(st[i])])

----------------------------------------------------------------------------
(* Error values.  errs[i] is the error behind reference i; 0 is nil.  An   *)
(* sError owns its inner chain link (the errors.New or fmt.Errorf value in *)
(* its err field): msg and err of its record are that link's text and      *)
(* cause, and reference -i names the link itself.                          *)

ErrorString(m) ==
  [type |-> "*errorString", msg |-> m, err |-> 0,
   origin |-> EmptyOrigin, attrs |-> EmptyMap, stack |-> NilSlice]
\* &testErr{msg}: an error type of the caller, no Unwrap, no LogValue
TestErr(m) == [ErrorString(m) EXCEPT !.type = "*testErr"]
\* fmt.Errorf("%s: %w", message, err): the text is formatted when it is built
WrapError(text, e) == [ErrorString(text) EXCEPT !.type = "*wrapError", !.err = e]
\* an error type of the caller with an Unwrap method and an optional cause
CauseErr(m, e) == [ErrorString(m) EXCEPT !.type = "*causeErr", !.err = e]
\* an error type of the caller whose LogValue method renders its text as a
\* string value, not as a group
ValuerErr(m) == [ErrorString(m) EXCEPT !.type = "*valuerErr"]
\* &sError{err: <link with text and cause>, origin, attrs, stack}
SError(text, cause, o, am, st) ==
  [type |-> "*sError", msg |-> text, err |-> cause,
   origin |-> o, attrs |-> am, stack |-> st]

\* the object behind a reference
Obj(r) ==
  IF r > 0 THEN errs[r]
  ELSE IF errs[-r].err = 0 THEN ErrorString(errs[-r].msg)
  ELSE WrapError(errs[-r].msg, errs[-r].err)

ErrTypes ==
  {"*errorString", "*testErr", "*wrapError", "*sError", "*PathError", "*causeErr",
   "*valuerErr"}

HasUnwrap(r) == Obj(r).type \in {"*wrapError", "*sError", "*causeErr"}
HasLogValue(r) == Obj(r).type \in {"*sError", "*valuerErr"}

\* an sError that does not expose its link
UnwrapMethodHidesLink(r) == IF Obj(r).type = "*sError" THEN 0 ELSE Obj(r).err

\* the Unwrap method of the object (sError.Unwrap, wrapError.Unwrap)
UnwrapMethod(r) == IF Obj(r).type = "*sError" THEN -r ELSE Obj(r).err

\* the Error method: an sError answers with its link's text
Error(r) == Obj(r).msg

\* package-level Unwrap: the loop that follows Unwrap methods
RECURSIVE Unwrap(_)
Unwrap(r) ==
  IF r = 0 THEN 0
  ELSE IF ~HasUnwrap(r) THEN r
  ELSE Unwrap(UnwrapMethod(r))

\* a comparison by text instead of identity
RECURSIVE IsByText(_, _)
IsByText(r, target) ==
  IF r = 0 \/ target = 0 THEN r = target
  ELSE IF Obj(r).type = Obj(target).type /\ Obj(r).msg = Obj(target).msg THEN TRUE
  ELSE IF HasUnwrap(r) THEN IsByText(UnwrapMethod(r), target) /\ UnwrapMethod(r) # 0
  ELSE FALSE

\* errors.Is on comparable (pointer) errors: identity along the chain
RECURSIVE Is(_, _)
Is(r, target) ==
  IF r = 0 \/ target = 0 THEN r = target
  ELSE IF r = target THEN TRUE
  ELSE IF HasUnwrap(r) THEN Is(UnwrapMethod(r), target) /\ UnwrapMethod(r) # 0
  ELSE FALSE

\* errors.As: the first object of the chain whose dynamic type is T, or 0
RECURSIVE As(_, _)
As(r, T) ==
  IF r = 0 THEN 0
  ELSE IF Obj(r).type = T THEN r
  ELSE IF HasUnwrap(r) THEN As(UnwrapMethod(r), T)
  ELSE 0

\* sort.Slice by Key of the attributes of am plus errGroup.  sort.Slice is
\* not stable: when am holds the name "error" too, either may come first.
SortWithErrGroup(am, errGroup, tie) ==
  LET one(k) ==
        IF k = errKey
        THEN IF k \in DOMAIN am
             THEN IF tie THEN <<errGroup, am[k]>> ELSE <<am[k], errGroup>>
             ELSE <<errGroup>>
        ELSE IF k \in DOMAIN am THEN <<am[k]>> ELSE <<>>
      RECURSIVE cat(_)
      cat(i) == IF i > Len(KeyOrder) THEN <<>> ELSE one(KeyOrder[i]) \o cat(i + 1)
  IN cat(1)

\* sError.LogValue
LogValue(e, tie) ==
  LET o == errs[e].origin
      msg == MkAttr(msgKey, StringValue(Error(UnwrapMethod(e))))
      errGroup ==
        IF ~OriginEmpty(o)
        THEN MkAttr(errKey, GroupValue(<<msg,
               MkAttr(stackKey, StringValue(StackTraceString(SliceElems(errs[e].stack))))>>))
        ELSE MkAttr(errKey, GroupValue(<<msg>>))
  IN GroupValue(SortWithErrGroup(errs[e].attrs, errGroup, tie))

\* slog.Value.String and slog.Attr.String (key=value); a group prints as
\* the list of its members, a value of KindAny as what it holds
RECURSIVE ValueString(_)
ValueString(v) ==
  CASE v.kind = "Int64" -> ToString(v.n)
    [] v.kind = "String" -> v.s
    [] v.kind = "Group" ->
         "[" \o Join([i \in DOMAIN v.g |-> v.g[i].Key \o "=" \o ValueString(v.g[i].Value)]) \o "]"
    [] OTHER -> "<" \o v.s \o ">"

AttrString(a) == a.Key \o "=" \o ValueString(a.Value)

\* a rendering that leaves no name out
ReservedNone(k) == FALSE

\* a.Key == errKey || a.Key == msgKey
Reserved(k) == k = errKey \/ k = msgKey

\* sError.StructuredError
StructuredError(e) ==
  LET ks == SortedKeys(DOMAIN errs[e].attrs)
      shown == SelectSeq(ks, LAMBDA k : ~Reserved(k))
      formattedParts == [i \in DOMAIN shown |-> AttrString(errs[e].attrs[shown[i]])]
      stack == SliceElems(errs[e].stack)
  IN IF Cardinality(DOMAIN errs[e].attrs) < 1 THEN Error(e)
     ELSE IF Len(formattedParts) < 1 /\ Len(stack) < 1 THEN Error(e)
     ELSE Error(e) \o ": " \o
          Join(Append(formattedParts, "stack=" \o StackTraceString(stack)))

\* what sError.Format prints for a verb with its flag ("%+v", "%s", ...)
FormatText(e, verb) ==
  IF verb \in {"%+v", "%#v"} THEN StructuredError(e)
  ELSE IF verb \in {"%v", "%s"} THEN Error(e)
  ELSE ""

----------------------------------------------------------------------------
(* The items of a variadic argument list (args ...any), by dynamic type.   *)

Str(s) == [t |-> "string", s |-> s, r |-> 0, a |-> ZeroAttr]
CtxArg(c) == [t |-> "context", s |-> "", r |-> c, a |-> ZeroAttr]
ErrArg(e) == [t |-> "error", s |-> "", r |-> e, a |-> ZeroAttr]
AttrArg(a) == [t |-> "attr", s |-> "", r |-> 0, a |-> a]
\* a value of any other type (an int, a struct): a.Value is what slog.Any makes of it
Other(v) == [t |-> "other", s |-> "", r |-> 0, a |-> MkAttr("", v)]

\* slog.Any(key, x).Value for an item x
AnyValue(x) ==
  CASE x.t = "string" -> StringValue(x.s)
    [] x.t = "other" -> x.a.Value
    [] x.t = "attr" -> AnyOf("attr:" \o x.a.Key, 0)
    [] x.t = "error" /\ x.r = 0 -> ZeroValue
    [] OTHER -> AnyOf(x.t, x.r)

\* logAttrsFromContext: the map the context carries (0: it carries none and
\* the caller gets a fresh map).  Context 0 is context.Background().
logAttrsFromContext(c) == IF c = 0 THEN 0 ELSE ctxs[c].am

MapOf(ref) == IF ref = 0 THEN EmptyMap ELSE maps[ref]

\* ToSlice / MapValues: the values of a map, in the order the iteration
\* happens to take (here: descending names, an order that is not the sorted
\* one).  The keys are distinct and every reader either inserts the values
\* into a map or sorts them, so the order taken does not show in a result.
ToSlice(m) ==
  LET ks == SortedKeys(DOMAIN m)
  IN [i \in DOMAIN ks |-> m[ks[Len(ks) + 1 - i]]]

\* attributes left in the order they came in
Unsorted(as) == as

\* sort.Slice by Key on attributes with distinct names
SortByKey(as) ==
  LET ks == SortedKeys({as[i].Key : i \in DOMAIN as})
  IN [i \in DOMAIN ks |-> as[CHOOSE j \in DOMAIN as : as[j].Key = ks[i]]]

\* lv.LogValue() for an error that has the method
LogValueOf(e, tie) ==
  IF Obj(e).type = "*sError" THEN LogValue(e, tie) ELSE StringValue(Error(e))

\* a normalizer that takes nothing from errors
logAttrsFromErrorNone(e, tie) == [panic |-> FALSE, attrs |-> <<>>]

logAttrsFromError(e, tie) ==
  IF HasLogValue(e)
  THEN LET v == LogValueOf(e, tie)
       IN IF v.kind = "Group" THEN [panic |-> FALSE, attrs |-> v.g]
          ELSE [panic |-> TRUE, attrs |-> <<>>]
  ELSE [panic |-> FALSE, attrs |-> <<>>]

\* a pair that ends up under the sentinel name
PairAttrBadKey(k, v) == MkAttr(badKey, AnyValue(v))

\* slog.Any(x, args[1]): a key string and the item after it
PairAttr(k, v) == MkAttr(k, AnyValue(v))

argsToAttr(args, tie) ==
  LET x == args[1]
  IN CASE x.t = "string" ->
            IF Len(args) = 1
            THEN [panic |-> FALSE, attrs |-> <<MkAttr(badKey, StringValue(x.s))>>, rest |-> <<>>]
            ELSE [panic |-> FALSE, attrs |-> <<PairAttr(x.s, args[2])>>,
                  rest |-> SubSeq(args, 3, Len(args))]
       [] x.t = "context" ->
            [panic |-> FALSE, attrs |-> ToSlice(MapOf(logAttrsFromContext(x.r))),
             rest |-> Tail(args)]
       [] x.t = "error" /\ x.r # 0 ->
            LET r == logAttrsFromError(x.r, tie)
            IN [panic |-> r.panic, attrs |-> r.attrs, rest |-> Tail(args)]
       [] x.t = "attr" ->
            [panic |-> FALSE, attrs |-> <<x.a>>, rest |-> Tail(args)]
       [] OTHER ->
            \* any other type, a nil interface included
            [panic |-> FALSE, attrs |-> <<MkAttr(badKey, AnyValue(x))>>, rest |-> Tail(args)]

\* a map insert that keeps the value already there
PutKeepsFirst(am, a) == am @@ (a.Key :> a)

\* am[a.Key] = a
Put(am, a) == (a.Key :> a) @@ am

RECURSIVE PutAll(_, _)
PutAll(am, as) == IF as = <<>> THEN am ELSE PutAll(Put(am, as[1]), Tail(as))

\* the inner loop of ParseLogArgs over the attributes one item gives
RECURSIVE MergeAttrs(_, _)
MergeAttrs(am, as) ==
  IF as = <<>> THEN [panic |-> FALSE, am |-> am]
  ELSE LET a == as[1]
       IN IF isEmptyGroup(a.Value) THEN MergeAttrs(am, Tail(as))
          ELSE IF a.Key = ""
          THEN IF a.Value.kind = "Group"
               THEN MergeAttrs(PutAll(am, a.Value.g), Tail(as))
               ELSE [panic |-> TRUE, am |-> am]
          ELSE MergeAttrs(Put(am, a), Tail(as))

RECURSIVE ParseLoop(_, _, _)
ParseLoop(args, am, tie) ==
  IF args = <<>> THEN [panic |-> FALSE, am |-> am]
  ELSE LET r == argsToAttr(args, tie)
       IN IF r.panic THEN [panic |-> TRUE, am |-> am]
          ELSE LET m == MergeAttrs(am, r.attrs)
               IN IF m.panic THEN m ELSE ParseLoop(r.rest, m.am, tie)

\* ParseLogArgs: the map f is then called on, or a panic before f is called
ParseLogArgs(args, tie) == ParseLoop(args, EmptyMap, tie)

----------------------------------------------------------------------------
(* The calls.  ret records the call that has just returned: what was       *)
(* passed, what came back (res: the error or context returned, 0 for nil), *)
(* whether it panicked; out is the attribute Attr returned, view the        *)
(* attributes the context passed to Context carried on entry, verb and     *)
(* text the format verb given to Format and what it printed.  The caller   *)
(* takes the result (Return) before its next call.                         *)

Ret(op, e, c, message, args, tie, res, panic) ==
  [op |-> op, err |-> e, ctx |-> c, msg |-> message, args |-> args, tie |-> tie,
   res |-> res, panic |-> panic, out |-> ZeroAttr, view |-> EmptyMap,
   verb |-> "", text |-> ""]

Idle == Ret("idle", 0, 0, "", <<>>, FALSE, 0, FALSE)

\* Go's append on a slice of Origins: in place while the array has room,
\* else into a new array of twice the capacity
GrowCap(c) == IF c = 0 THEN 1 ELSE 2 * c

\* an append that puts the new entry in front
AppendOriginFirst(sl, o) ==
  [slice |-> [arr |-> Len(arrs) + 1, len |-> sl.len + 1],
   arrs |-> Append(arrs, <<o>> \o SliceElems(sl))]

\* append(sl, o): in place when the backing array has room
AppendOrigin(sl, o) ==
  IF sl.len < SliceCap(sl)
  THEN [slice |-> [arr |-> sl.arr, len |-> sl.len + 1],
        arrs |-> [arrs EXCEPT ![sl.arr][sl.len + 1] = o]]
  ELSE [slice |-> [arr |-> Len(arrs) + 1, len |-> sl.len + 1],
        arrs |-> Append(arrs,
                   [i \in 1..GrowCap(SliceCap(sl)) |->
                      IF i <= sl.len THEN arrs[sl.arr][i]
                      ELSE IF i = sl.len + 1 THEN o ELSE EmptyOrigin])]

\* a test that never takes the plain path
NoAttrsNever(am) == FALSE

\* len(am) < 1: New and Wrap then return a plain error
NoAttrs(am) == Cardinality(DOMAIN am) < 1

\* the callback New hands to ParseLogArgs keeps every attribute
NewAttrs(am) == am

\* the callback Wrap hands to ParseLogArgs drops the name "error"
WrapAttrs(am) == [k \in DOMAIN am \ {errKey} |-> am[k]]

\* New(message, args...) called from site
New(message, args, site, tie) ==
  LET p == ParseLogArgs(args, tie)
      am == NewAttrs(p.am)
      n == Len(errs)
  IN /\ ret = Idle
     /\ UNCHANGED calls
     /\ IF p.panic
        THEN /\ ret' = Ret("New", 0, 0, message, args, tie, 0, TRUE)
             /\ UNCHANGED <<errs, arrs, ctxs, maps>>
        ELSE /\ ret' = Ret("New", 0, 0, message, args, tie, n + 1, FALSE)
             /\ UNCHANGED <<ctxs, maps>>
             /\ IF NoAttrs(am)
                THEN /\ errs' = Append(errs, ErrorString(message))
                     /\ UNCHANGED arrs
                ELSE /\ errs' = Append(errs,
                          SError(message, 0, site, am, [arr |-> Len(arrs) + 1, len |-> 1]))
                     /\ arrs' = Append(arrs, <<site>>)

\* a link text that leaves the cause's text out
WrapTextNoCause(message, e) == message

\* the text of fmt.Errorf("%s: %w", message, err)
WrapText(message, e) ==
  message \o ": " \o (IF e = 0 THEN "%!w(<nil>)" ELSE Error(e))

\* a Wrap that goes on to normalize for a nil error
IsNilSkipped(e) == FALSE

\* if err == nil { return nil }
IsNil(e) == e = 0

\* Wrap(err, message, args...) called from site
Wrap(e, message, args, site, tie) ==
  /\ ret = Idle
  /\ UNCHANGED calls
  /\ IF IsNil(e)
     THEN /\ ret' = Ret("Wrap", e, 0, message, args, tie, 0, FALSE)
          /\ UNCHANGED <<errs, arrs, ctxs, maps>>
     ELSE
     LET p == ParseLogArgs(<<ErrArg(e)>> \o args, tie)
         am == WrapAttrs(p.am)
         n == Len(errs)
         sErr == As(e, "*sError")
     IN IF p.panic
        THEN /\ ret' = Ret("Wrap", e, 0, message, args, tie, 0, TRUE)
             /\ UNCHANGED <<errs, arrs, ctxs, maps>>
        ELSE /\ ret' = Ret("Wrap", e, 0, message, args, tie, n + 1, FALSE)
             /\ UNCHANGED <<ctxs, maps>>
             /\ IF NoAttrs(am)
                THEN /\ errs' = Append(errs, WrapError(WrapText(message, e), e))
                     /\ UNCHANGED arrs
                ELSE IF sErr # 0
                THEN LET ap == AppendOrigin(Obj(sErr).stack, site)
                     IN /\ arrs' = ap.arrs
                        /\ errs' = Append(errs,
                             SError(WrapText(message, e), e, Obj(sErr).origin, am, ap.slice))
                ELSE /\ arrs' = Append(arrs, <<site>>)
                     /\ errs' = Append(errs,
                          SError(WrapText(message, e), e, site, am,
                                 [arr |-> Len(arrs) + 1, len |-> 1]))

\* fmt.Errorf("stderrors wrap: %w", err) in the caller's code: a conventional link
Errorf(e) ==
  /\ ret = Idle
  /\ UNCHANGED calls
  /\ e # 0
  /\ errs' = Append(errs, WrapError(WrapText("stderrors wrap", e), e))
  /\ ret' = Ret("Errorf", e, 0, "stderrors wrap", <<>>, FALSE, Len(errs) + 1, FALSE)
  /\ UNCHANGED <<arrs, ctxs, maps>>

\* &testErr{msg: "error message"} in the caller's code
NewTestErr ==
  /\ ret = Idle
  /\ UNCHANGED calls
  /\ errs' = Append(errs, TestErr("error message"))
  /\ ret' = Ret("testErr", 0, 0, "error message", <<>>, FALSE, Len(errs) + 1, FALSE)
  /\ UNCHANGED <<arrs, ctxs, maps>>

\* a callback that leaves the names the map already holds as they are
WriteAllKeepsOld(m, new) == m @@ new

\* the callback of ContextWithLogArgs, called on every normalized attribute:
\* am[a.Key] = a
WriteAll(m, new) == new @@ m

\* the caller builds an error of its own type around cause e (0: without a cause)
NewCauseErr(e) ==
  /\ ret = Idle
  /\ UNCHANGED calls
  /\ errs' = Append(errs, CauseErr("cause error", e))
  /\ ret' = Ret("causeErr", e, 0, "cause error", <<>>, FALSE, Len(errs) + 1, FALSE)
  /\ UNCHANGED <<arrs, ctxs, maps>>

\* the caller builds an error of its own type whose LogValue is not a group
NewValuerErr ==
  /\ ret = Idle
  /\ UNCHANGED calls
  /\ errs' = Append(errs, ValuerErr("valuer error"))
  /\ ret' = Ret("valuerErr", 0, 0, "valuer error", <<>>, FALSE, Len(errs) + 1, FALSE)
  /\ UNCHANGED <<arrs, ctxs, maps>>

\* ContextWithLogArgs(ctx, args...) (loghelper.Context)
ContextWithLogArgs(c, args, tie) ==
  LET ref == logAttrsFromContext(c)
      p == ParseLogArgs(args, tie)
      am == WriteAll(MapOf(ref), p.am)
  IN /\ ret = Idle
     /\ UNCHANGED calls
     /\ IF p.panic
        THEN /\ ret' = [Ret("Context", 0, c, "", args, tie, 0, TRUE) EXCEPT
                         !.view = MapOf(ref)]
             /\ UNCHANGED <<errs, arrs, ctxs, maps>>
        ELSE /\ ret' = [Ret("Context", 0, c, "", args, tie, Len(ctxs) + 1, FALSE) EXCEPT
                         !.view = MapOf(ref)]
             /\ UNCHANGED <<errs, arrs>>
             /\ IF ref = 0
                THEN /\ maps' = Append(maps, am)
                     /\ ctxs' = Append(ctxs, [am |-> Len(maps) + 1])
                ELSE /\ maps' = [maps EXCEPT ![ref] = am]
                     /\ ctxs' = Append(ctxs, [am |-> ref])

\* the attribute loghelper.Attr builds from the attributes collected
AttrOf(attrs) ==
  IF Len(attrs) < 1 THEN ZeroAttr
  ELSE IF Len(attrs) < 2 THEN attrs[1]
  ELSE MkAttr("", GroupValue(SortByKey(attrs)))

\* loghelper.Attr(args...): out is the attribute returned
Attr(args, tie) ==
  LET p == ParseLogArgs(args, tie)
      out == AttrOf(ToSlice(p.am))
  IN /\ ret = Idle
     /\ UNCHANGED calls
     /\ ret' = [Ret("Attr", 0, 0, "", args, tie, 0, p.panic) EXCEPT
                 !.out = IF p.panic THEN ZeroAttr ELSE out]
     /\ UNCHANGED <<errs, arrs, ctxs, maps>>

\* fmt.Sprintf(verb, e) for a Structured Error e: sError.Format
Format(e, verb) ==
  /\ ret = Idle
  /\ UNCHANGED calls
  /\ Obj(e).type = "*sError"
  /\ ret' = [Ret("Format", e, 0, "", <<>>, FALSE, 0, FALSE) EXCEPT
               !.verb = verb, !.text = FormatText(e, verb)]
  /\ UNCHANGED <<errs, arrs, ctxs, maps>>

\* the caller takes the result of the call
Return ==
  /\ ret # Idle
  /\ ret' = Idle
  /\ UNCHANGED <<errs, arrs, ctxs, maps, calls>>

----------------------------------------------------------------------------
(* Concurrent call paths.  calls[t] is the call of Context or Attr that    *)
(* path t is in: pc its position, ref the map logAttrsFromContext gave it  *)
(* (0: a fresh map, held in local until the context is built), todo the    *)
(* normalized attributes the callback has not been called on yet, seen     *)
(* what a reader found in the map when it began to iterate.                *)

\* call paths that share contexts
MaxThreads == 2

Threads == 1..MaxThreads

IdleCall ==
  [pc |-> "idle", ctx |-> 0, ref |-> 0, local |-> EmptyMap, todo |-> <<>>, seen |-> EmptyMap]

\* ContextWithLogArgs up to the loop that calls the callback: the map is
\* taken from the context and the arguments are normalized
ContextBegin(t, c, args) ==
  LET p == ParseLogArgs(args, FALSE)
  IN /\ calls[t].pc = "idle"
     /\ ~p.panic
     /\ calls' = [calls EXCEPT ![t] =
                    [IdleCall EXCEPT !.pc = "write", !.ctx = c,
                                     !.ref = logAttrsFromContext(c),
                                     !.todo = ToSlice(p.am)]]
     /\ UNCHANGED <<errs, arrs, ctxs, maps, ret>>

\* one call of the callback: am[a.Key] = a
ContextWrite(t) ==
  LET c == calls[t]
  IN /\ c.pc = "write"
     /\ c.todo # <<>>
     /\ IF c.ref = 0
        THEN /\ calls' = [calls EXCEPT ![t].local = Put(c.local, c.todo[1]),
                                       ![t].todo = Tail(c.todo)]
             /\ UNCHANGED maps
        ELSE /\ calls' = [calls EXCEPT ![t].todo = Tail(c.todo)]
             /\ maps' = [maps EXCEPT ![c.ref] = Put(@, c.todo[1])]
     /\ UNCHANGED <<errs, arrs, ctxs, ret>>

\* context.WithValue(ctx, logAttrCtxKey, am): the new context is published
ContextEnd(t) ==
  LET c == calls[t]
  IN /\ c.pc = "write"
     /\ c.todo = <<>>
     /\ calls' = [calls EXCEPT ![t] = IdleCall]
     /\ IF c.ref = 0
        THEN /\ maps' = Append(maps, c.local)
             /\ ctxs' = Append(ctxs, [am |-> Len(maps) + 1])
        ELSE /\ ctxs' = Append(ctxs, [am |-> c.ref])
             /\ UNCHANGED maps
     /\ UNCHANGED <<errs, arrs, ret>>

\* Attr(ctx) starts to iterate over the map of the context (ToSlice)
AttrBegin(t, c) ==
  /\ calls[t].pc = "idle"
  /\ calls' = [calls EXCEPT ![t] =
                 [IdleCall EXCEPT !.pc = "read", !.ctx = c,
                                  !.ref = logAttrsFromContext(c),
                                  !.seen = MapOf(logAttrsFromContext(c))]]
  /\ UNCHANGED <<errs, arrs, ctxs, maps, ret>>

\* the iteration is over and Attr returns
AttrEnd(t) ==
  /\ calls[t].pc = "read"
  /\ calls' = [calls EXCEPT ![t] = IdleCall]
  /\ UNCHANGED <<errs, arrs, ctxs, maps, ret>>

----------------------------------------------------------------------------
(* What callers pass *)

Msgs == {"m", "w"}

\* the outcomes of the unstable sort matter only when an error of the list
\* carries an attribute named "error"
Ties(args) ==
  IF \E i \in DOMAIN args :
       /\ args[i].t = "error"
       /\ args[i].r # 0
       /\ errKey \in DOMAIN Obj(args[i].r).attrs
  THEN BOOLEAN ELSE {FALSE}

ListsOver(S) == UNION {[1..n -> S] : n \in 0..MaxArgs}

ZeroAttrArg == AttrArg(ZeroAttr)

ErrItems ==
  {AttrArg(MkAttr("a", IntValue(1))), AttrArg(MkAttr("x", IntValue(2))),
   AttrArg(MkAttr(errKey, IntValue(1))), ZeroAttrArg}

Init ==
  /\ errs = <<>>
  /\ arrs = <<>>
  /\ ctxs = <<>>
  /\ maps = <<>>
  /\ ret = Idle
  /\ calls = [t \in Threads |-> IdleCall]

\* a caller between calls, with room left for one more error value
CanBuild == ret = Idle /\ Len(errs) < MaxErrs

Next ==
  \/ /\ CanBuild
     /\ \E message \in Msgs, args \in ListsOver(ErrItems), site \in NewSites :
          New(message, args, site, FALSE)
  \/ /\ CanBuild
     /\ \E e \in {0} \cup DOMAIN errs, message \in Msgs,
           args \in ListsOver(ErrItems), site \in WrapSites :
          \E tie \in Ties(<<ErrArg(e)>> \o args) : Wrap(e, message, args, site, tie)
  \/ CanBuild /\ \E e \in DOMAIN errs : Errorf(e)
  \/ CanBuild /\ NewTestErr
  \/ Return

Spec == Init /\ [][Next]_vars

----------------------------------------------------------------------------
(* Long chains: an error is created in one place and wrapped on its way    *)
(* up, with one attribute or none at each step.                            *)

\* error values of a chain-building run
MaxChain == 4

NewLists == {<<>>, <<AttrArg(MkAttr("a", IntValue(1)))>>}
WrapLists == {<<>>, <<AttrArg(MkAttr("x", IntValue(2)))>>}

CanChain == ret = Idle /\ Len(errs) < MaxChain

NextChain ==
  \/ CanChain /\ \E args \in NewLists : New("m", args, Site1, FALSE)
  \/ CanChain /\ \E e \in DOMAIN errs, args \in WrapLists : Wrap(e, "w", args, Site2, FALSE)
  \/ CanChain /\ \E e \in DOMAIN errs : Errorf(e)
  \/ CanChain /\ NewTestErr
  \/ Return

SpecChain == Init /\ [][NextChain]_vars

----------------------------------------------------------------------------
(* Chains through error types of the caller that have an Unwrap method.    *)

\* error values of such a run
MaxCause == 3

CanCause == ret = Idle /\ Len(errs) < MaxCause

NextCause ==
  \/ CanCause /\ \E args \in NewLists : New("m", args, Site1, FALSE)
  \/ CanCause /\ NewTestErr
  \/ CanCause /\ \E e \in {0} \cup DOMAIN errs : NewCauseErr(e)
  \/ CanCause /\ \E e \in DOMAIN errs, args \in WrapLists : Wrap(e, "w", args, Site2, FALSE)
  \/ Return

SpecCause == Init /\ [][NextCause]_vars

----------------------------------------------------------------------------
(* Shared errors: an error with attributes is wrapped on its way up and    *)
(* more than one caller wraps the same error, each at its own line.        *)

\* error values of a run that shares errors
MaxShared == 5

CanShare == ret = Idle /\ Len(errs) < MaxShared

NextShare ==
  \/ CanShare /\ New("m", <<AttrArg(MkAttr("a", IntValue(1)))>>, Site1, FALSE)
  \/ CanShare /\ \E e \in DOMAIN errs, args \in WrapLists, site \in {Site2, Site3} :
                   Wrap(e, "w", args, site, FALSE)
  \/ Return

SpecShare == Init /\ [][NextShare]_vars

----------------------------------------------------------------------------
(* Contexts: callers derive contexts from Background and from each other.  *)

CtxItems ==
  {AttrArg(MkAttr("a", IntValue(1))), AttrArg(MkAttr("a", IntValue(2))),
   AttrArg(MkAttr("x", IntValue(2))), ZeroAttrArg}
    \cup {CtxArg(c) : c \in DOMAIN ctxs}

NextCtx ==
  \/ /\ ret = Idle /\ Len(ctxs) < MaxCtxs
     /\ \E c \in {0} \cup DOMAIN ctxs, args \in ListsOver(CtxItems) :
          ContextWithLogArgs(c, args, FALSE)
  \/ Return

SpecCtx == Init /\ [][NextCtx]_vars

\* contexts built or being built by the concurrent call paths
InFlight == Cardinality({t \in Threads : calls[t].pc = "write"})

ConcItems ==
  {AttrArg(MkAttr("a", IntValue(1))), AttrArg(MkAttr("a", IntValue(2))),
   AttrArg(MkAttr("x", IntValue(2)))}

NextConc ==
  \/ /\ Len(ctxs) + InFlight < MaxCtxs
     /\ \E t \in Threads, c \in {0} \cup DOMAIN ctxs, args \in ListsOver(ConcItems) :
          ContextBegin(t, c, args)
  \/ \E t \in Threads : ContextWrite(t)
  \/ \E t \in Threads : ContextEnd(t)
  \/ \E t \in Threads, c \in DOMAIN ctxs : AttrBegin(t, c)
  \/ \E t \in Threads : AttrEnd(t)

SpecConc == Init /\ [][NextConc]_vars

----------------------------------------------------------------------------
(* The normalizer: a caller that holds a few errors and contexts passes    *)
(* argument lists of every shape to loghelper.Attr.                        *)

\* errors, and contexts, the caller of Attr holds
MaxHeld == 1
\* length of the argument list of Attr
MaxAttrArgs == 3

SeedLists ==
  {<<AttrArg(MkAttr("a", IntValue(1)))>>, <<AttrArg(MkAttr(errKey, IntValue(1)))>>}

\* what the context the caller holds was built from
CtxSeedLists ==
  {<<AttrArg(MkAttr("a", IntValue(2))), AttrArg(MkAttr("x", IntValue(2)))>>,
   <<AttrArg(MkAttr(errKey, IntValue(1)))>>}

ParseItems ==
  {Str("a"), Other(IntValue(1)),
   AttrArg(MkAttr("a", IntValue(2))),
   AttrArg(MkAttr("", GroupValue(<<MkAttr("a", IntValue(3)), MkAttr("x", IntValue(2))>>)))}
    \cup {ErrArg(e) : e \in DOMAIN errs}
    \cup {CtxArg(c) : c \in DOMAIN ctxs}

AttrLists == UNION {[1..n -> ParseItems] : n \in 0..MaxAttrArgs}

NextParse ==
  \/ /\ ret = Idle /\ Len(errs) < MaxHeld
     /\ \E args \in SeedLists : New("m", args, Site1, FALSE)
  \/ /\ ret = Idle /\ Len(ctxs) < MaxHeld
     /\ \E c \in {0} \cup DOMAIN ctxs, args \in CtxSeedLists :
          ContextWithLogArgs(c, args, FALSE)
  \/ /\ ret = Idle
     /\ \E args \in AttrLists : \E tie \in Ties(args) : Attr(args, tie)
  \/ Return

SpecParse == Init /\ [][NextParse]_vars

----------------------------------------------------------------------------
(* Printing: errors with attributes, some of them under the names the      *)
(* renderings reserve, are built and printed with the fmt verbs.           *)

\* error values of a run that prints them
MaxPrinted == 2

Verbs == {"%v", "%+v", "%#v", "%s", "%d"}

PrintLists ==
  {<<AttrArg(MkAttr("a", IntValue(1)))>>,
   <<AttrArg(MkAttr(msgKey, StringValue("t")))>>,
   <<AttrArg(MkAttr("x", StringValue("y"))), AttrArg(MkAttr(msgKey, StringValue("t")))>>}

CanPrint == ret = Idle /\ Len(errs) < MaxPrinted

NextPrint ==
  \/ CanPrint /\ \E args \in PrintLists, site \in NewSites : New("m", args, site, FALSE)
  \/ CanPrint /\ \E e \in DOMAIN errs, args \in {<<>>} \cup PrintLists :
                   Wrap(e, "w", args, Site2, FALSE)
  \/ \E e \in DOMAIN errs, verb \in Verbs : Format(e, verb)
  \/ Return

SpecPrint == Init /\ [][NextPrint]_vars

----------------------------------------------------------------------------
(* Errors as arguments: the caller holds an error (structured, plain, or   *)
(* of a type of its own with a LogValue method) and passes it to Attr.     *)

\* errors the caller holds
MaxGiven == 2
\* length of the argument list that holds them
MaxErrArgs == 2

GivenItems ==
  {Str("a"), AttrArg(MkAttr("a", IntValue(2))), AttrArg(MkAttr("x", IntValue(2)))}
    \cup {ErrArg(e) : e \in DOMAIN errs}

GivenLists == UNION {[1..n -> GivenItems] : n \in 0..MaxErrArgs}

CanGive == ret = Idle /\ Len(errs) < MaxGiven

NextGiven ==
  \/ CanGive /\ \E args \in SeedLists, site \in NewSites : New("m", args, site, FALSE)
  \/ CanGive /\ NewTestErr
  \/ CanGive /\ NewValuerErr
  \/ /\ ret = Idle
     /\ \E args \in GivenLists : \E tie \in Ties(args) : Attr(args, tie)
  \/ Return

SpecGiven == Init /\ [][NextGiven]_vars

----------------------------------------------------------------------------
(* Results of Attr as arguments: a caller passes loghelper.Attr(inner...)  *)
(* as the one argument of Attr, Context, New or Wrap, as dbGetUser does.   *)

\* errors, and contexts, built from results of Attr
MaxFed == 2

\* the argument lists of the inner call; none of them makes it panic
FedLists ==
  {<<>>, <<Str("a")>>, <<AttrArg(MkAttr("a", IntValue(1)))>>,
   <<AttrArg(MkAttr("a", IntValue(1))), AttrArg(MkAttr("x", IntValue(2)))>>}
    \cup {<<CtxArg(c)>> : c \in {0} \cup DOMAIN ctxs}

\* loghelper.Attr(inner...) evaluated as an argument of the outer call
AttrResult(inner) == AttrOf(ToSlice(ParseLogArgs(inner, FALSE).am))

Fed(inner) == <<AttrArg(AttrResult(inner))>>

NextFeed ==
  \/ /\ ret = Idle
     /\ \E inner \in FedLists : Attr(Fed(inner), FALSE)
  \/ /\ ret = Idle /\ Len(ctxs) < MaxFed
     /\ \E c \in {0} \cup DOMAIN ctxs, inner \in FedLists :
          ContextWithLogArgs(c, Fed(inner), FALSE)
  \/ /\ ret = Idle /\ Len(errs) < MaxFed
     /\ \E inner \in FedLists : New("m", Fed(inner), Site1, FALSE)
  \/ /\ ret = Idle /\ Len(errs) < MaxFed
     /\ \E e \in DOMAIN errs, inner \in FedLists : Wrap(e, "w", Fed(inner), Site2, FALSE)
  \/ Return

SpecFeed == Init /\ [][NextFeed]_vars

----------------------------------------------------------------------------
(* Malformed argument lists: key strings without a value, empty key        *)
(* strings, values of other types, attributes without a name.              *)

\* length of a malformed argument list
MaxBadArgs == 3

\* a struct with a LogValue method that renders the group {a, x}
InlineArgs == Other(LogValuerOf(<<MkAttr("a", IntValue(3)), MkAttr("x", IntValue(2))>>))

BadItems ==
  {Str("a"), Str(""), Other(IntValue(1)), Other(GroupValue(<<>>)), InlineArgs,
   AttrArg(MkAttr("a", IntValue(2))), ZeroAttrArg}

BadLists == UNION {[1..n -> BadItems] : n \in 0..MaxBadArgs}

NextBad ==
  \/ \E args \in BadLists : Attr(args, FALSE)
  \/ Return

SpecBad == Init /\ [][NextBad]_vars

----------------------------------------------------------------------------
(* Vocabulary of the properties *)

\* the attributes one item's output contributes: empty groups nothing, an
\* unnamed group its members, any other attribute itself
RECURSIVE Contributed(_)
Contributed(as) ==
  IF as = <<>> THEN <<>>
  ELSE (IF isEmptyGroup(as[1].Value) THEN <<>>
        ELSE IF as[1].Key = "" /\ as[1].Value.kind = "Group" THEN as[1].Value.g
        ELSE <<as[1]>>) \o Contributed(Tail(as))

\* every attribute the items of args produce, left to right
RECURSIVE Produced(_, _)
Produced(args, tie) ==
  IF args = <<>> THEN <<>>
  ELSE LET r == argsToAttr(args, tie)
       IN Contributed(r.attrs) \o Produced(r.rest, tie)

NamesOf(as) == {as[i].Key : i \in DOMAIN as}

\* the right-most attribute named k of a sequence that holds one
LastNamed(as, k) ==
  as[CHOOSE i \in DOMAIN as :
       as[i].Key = k /\ \A j \in DOMAIN as : as[j].Key = k => j <= i]

\* the attributes an attribute returned by Attr stands for
ResultAttrs(out) ==
  IF out = ZeroAttr THEN <<>>
  ELSE IF out.Key = "" THEN out.Value.g
  ELSE <<out>>

Structured(r) == r # 0 /\ Obj(r).type = "*sError"

\* the last call was op and it returned
Returned(op) == ret.op = op /\ ~ret.panic

\* the flattened attribute view of a context
Flat(c) == MapOf(logAttrsFromContext(c))

----------------------------------------------------------------------------
(* C1: extending a context never changes the flattened attribute view of   *)
(* any context that exists already (the parent among them).                *)
C1_ParentUnchanged ==
  [][\A c \in DOMAIN ctxs : Flat(c)' = Flat(c)]_vars

(* C2: normalization is last-write-wins by name: the result of one call    *)
(* holds every produced name exactly once, with the attribute the          *)
(* right-most item that produced the name gave it.                         *)
C2_LastWriteWins ==
  Returned("Attr") =>
    LET prod == Produced(ret.args, ret.tie)
        res == ResultAttrs(ret.out)
    IN /\ NamesOf(res) = NamesOf(prod)
       /\ \A i, j \in DOMAIN res : res[i].Key = res[j].Key => i = j
       /\ \A i \in DOMAIN res : res[i] = LastNamed(prod, res[i].Key)

\* an error's attribute and a later argument of the same name and another value
C2_Witness ==
  /\ Returned("Attr")
  /\ Len(ret.args) >= 2
  /\ ret.args[1].t = "error"
  /\ LET prod == Produced(ret.args, ret.tie)
     IN \E i, j \in DOMAIN prod :
          /\ i < j
          /\ prod[i].Key = prod[j].Key
          /\ prod[i] # prod[j]
          /\ \E k \in DOMAIN ResultAttrs(ret.out) : ResultAttrs(ret.out)[k] = prod[j]

(* C3: wrapping a Structured Error gives a Structured Error with the same  *)
(* Origin and with the Stack of the wrapped error followed by one entry.   *)
C3_WrapExtendsStack ==
  (Returned("Wrap") /\ Structured(ret.err)) =>
    /\ Structured(ret.res)
    /\ Obj(ret.res).origin = Obj(ret.err).origin
    /\ LET old == SliceElems(Obj(ret.err).stack)
           new == SliceElems(Obj(ret.res).stack)
       IN Len(new) = Len(old) + 1 /\ SubSeq(new, 1, Len(old)) = old

KeysOf(as) == [i \in DOMAIN as |-> as[i].Key]

(* C4: the top-level names of LogValue() of an error built by New and Wrap *)
(* are the names added along the way plus "error", each once, ascending.   *)
C4_LogValueNames ==
  (/\ ret.op \in {"New", "Wrap"}
   /\ ~ret.panic
   /\ Structured(ret.res)
   /\ ret.op = "Wrap" => Structured(ret.err)) =>
    LET before == IF ret.op = "Wrap" THEN DOMAIN Obj(ret.err).attrs ELSE {}
        added == NamesOf(Produced(ret.args, ret.tie))
    IN \A tie \in BOOLEAN :
         KeysOf(LogValue(ret.res, tie).g) = SortedKeys(before \cup added \cup {errKey})

(* C5: Wrap of a nil error returns nil whatever the message and the        *)
(* arguments are, malformed ones included, and builds no error.            *)
C5_WrapNilIsNil ==
  (ret.op = "Wrap" /\ ret.err = 0) => (ret.res = 0 /\ ~ret.panic)

\* Wrap(nil, ...) has returned for arguments the normalizer panics on
C5_Witness ==
  /\ ret.op = "Wrap"
  /\ ret.err = 0
  /\ ret.res = 0
  /\ ParseLogArgs(ret.args, FALSE).panic

(* C6: the error Wrap returns keeps the wrapped error in its chain: Is     *)
(* finds it, As finds the types of its chain and no other type than those  *)
(* and the two link types Wrap adds, and Unwrap ends where it ended.       *)
C6_WrapKeepsChain ==
  (Returned("Wrap") /\ ret.err # 0) =>
    /\ Is(ret.res, ret.err)
    /\ As(ret.res, Obj(ret.err).type) # 0
    /\ \A T \in ErrTypes :
         /\ As(ret.err, T) # 0 => As(ret.res, T) # 0
         /\ As(ret.res, T) # 0 => (As(ret.err, T) # 0 \/ T \in {"*sError", "*wrapError"})
    /\ Unwrap(ret.res) = Unwrap(ret.err)
    /\ Unwrap(ret.res) # 0

\* a Structured Error wrapping a fmt.Errorf link of a chain that ends in a testErr
C6_Witness ==
  /\ Returned("Wrap")
  /\ Structured(ret.res)
  /\ ret.err # 0
  /\ Obj(ret.err).type = "*wrapError"
  /\ Obj(ret.err).msg = WrapText("stderrors wrap", Obj(ret.err).err)
  /\ Obj(Unwrap(ret.res)).type = "*testErr"
  /\ Unwrap(ret.res) # ret.err

(* C7: attributes never change the text: Wrap(err, m, args...) reads       *)
(* m + ": " + err.Error() and New(m, args...) reads m.                     *)
C7_ErrorText ==
  /\ (Returned("Wrap") /\ ret.err # 0) =>
        Error(ret.res) = ret.msg \o ": " \o Error(ret.err)
  /\ Returned("New") => Error(ret.res) = ret.msg

\* a Structured Error with attributes that wraps a Structured Error
C7_Witness ==
  /\ Returned("Wrap")
  /\ Structured(ret.res)
  /\ Structured(ret.err)
  /\ DOMAIN Obj(ret.res).attrs # DOMAIN Obj(ret.err).attrs

\* built by New without attributes: an errors.New value
PlainNew(i) == errs[i].type = "*errorString"

(* C8, as stated: two errors built by New with the same message and no     *)
(* attributes are equal under Is.                                          *)
C8_SameMessageIs ==
  \A i, j \in DOMAIN errs :
    (PlainNew(i) /\ PlainNew(j) /\ errs[i].msg = errs[j].msg) => Is(i, j)

(* C8, amended: errors built by New without attributes are equal under Is  *)
(* only to themselves; two built by separate calls with the same message   *)
(* read the same and are not Is-equal.                                     *)
C8_IsIsIdentity ==
  \A i, j \in DOMAIN errs :
    (PlainNew(i) /\ PlainNew(j)) =>
      /\ Is(i, j) <=> i = j
      /\ errs[i].msg = errs[j].msg => Error(i) = Error(j)

\* two separate plain New errors with the same message
C8_Witness ==
  \E i, j \in DOMAIN errs :
    i # j /\ PlainNew(i) /\ PlainNew(j) /\ errs[i].msg = errs[j].msg

C10_NoReservedName ==
  \A i \in DOMAIN errs :
    errs[i].type = "*sError" =>
      /\ errKey \notin DOMAIN errs[i].attrs
      /\ \A tie \in BOOLEAN :
           Cardinality({k \in DOMAIN LogValue(i, tie).g :
                          LogValue(i, tie).g[k].Key = errKey}) = 1

\* what a holder of error i reads from it: its fields and the entries of its stack
Seen(i) == [errs[i] EXCEPT !.stack = SliceElems(errs[i].stack)]

(* C12: a Structured Error is immutable once returned: no later call       *)
(* changes its attributes, its origin or the entries of its stack, also    *)
(* when the same error is wrapped twice.                                   *)
C12_ErrorsImmutable ==
  [][\A i \in DOMAIN errs : Seen(i)' = Seen(i)]_vars

\* what the items of a list of key strings, attributes and other values
\* stand for, item by item: a key string and the value after it, a key
\* string left alone, a value of another type, an attribute
RECURSIVE Meant(_)
Meant(args) ==
  IF args = <<>> THEN <<>>
  ELSE LET x == args[1]
       IN IF x.t = "string"
          THEN IF Len(args) = 1 THEN <<MkAttr(badKey, StringValue(x.s))>>
               ELSE <<MkAttr(x.s, AnyValue(args[2]))>> \o Meant(SubSeq(args, 3, Len(args)))
          ELSE IF x.t = "other" THEN <<MkAttr(badKey, x.a.Value)>> \o Meant(Tail(args))
          ELSE <<x.a>> \o Meant(Tail(args))

\* the attributes of a sequence as a last-write-wins result holds them
HoldsLastOf(res, as) ==
  /\ NamesOf(res) = NamesOf(as)
  /\ \A i \in DOMAIN res : res[i] = LastNamed(as, res[i].Key)

(* C14, as stated: no list of key strings, attributes and values of other  *)
(* types makes normalization panic, and each pair, trailing key string     *)
(* and value of another type is in the result under its key, resp. under   *)
(* "!BADKEY".                                                              *)
C14_NeverAborts ==
  ret.op = "Attr" =>
    /\ ~ret.panic
    /\ HoldsLastOf(ResultAttrs(ret.out), Meant(ret.args))

\* an attribute without a name whose value is not a group
Nameless(a) == a.Key = "" /\ a.Value.kind # "Group"

(* C14, amended: normalization panics exactly when an item stands for an   *)
(* attribute with an empty name and a non-group value; otherwise each      *)
(* pair, trailing key string and value of another type is in the result   *)
(* under its key, resp. under "!BADKEY", unless its value is an empty      *)
(* group.                                                                  *)
C14_AbortsOnlyNameless ==
  ret.op = "Attr" =>
    LET meant == Meant(ret.args)
        kept == SelectSeq(meant, LAMBDA a : ~isEmptyGroup(a.Value))
    IN /\ ret.panic <=> \E i \in DOMAIN meant : Nameless(meant[i])
       /\ ~ret.panic => HoldsLastOf(ResultAttrs(ret.out), kept)

\* a pair, then a key string without a value: both are in the result
C14_Witness ==
  /\ Returned("Attr")
  /\ ret.args = <<Str("a"), Other(IntValue(1)), Str("a")>>
  /\ ResultAttrs(ret.out) = <<MkAttr(badKey, StringValue("a")), MkAttr("a", IntValue(1))>>

UserParts(e) ==
  LET ks == SortedKeys(DOMAIN errs[e].attrs \ {errKey, msgKey})
  IN [i \in DOMAIN ks |-> ks[i] \o "=" \o ValueString(errs[e].attrs[ks[i]].Value)]

StackPart(e) == "stack=" \o StackTraceString(SliceElems(errs[e].stack))

(* C16, as stated: "%+v" and "%#v" print the bare error text when the      *)
(* error has no attribute besides the reserved names, and otherwise the    *)
(* text, ": ", the key=value strings and the stack segment; "%s" and "%v"  *)
(* print Error().                                                          *)
C16_BareWithoutUserAttrs ==
  ret.op = "Format" =>
    IF ret.verb \in {"%+v", "%#v"}
    THEN ret.text =
           IF UserParts(ret.err) = <<>> THEN Error(ret.err)
           ELSE Error(ret.err) \o ": " \o
                Join(Append(UserParts(ret.err), StackPart(ret.err)))
    ELSE ret.verb \in {"%s", "%v"} => ret.text = Error(ret.err)

(* C16, amended: "%+v" and "%#v" print the text, ": ", the key=value       *)
(* strings of the attributes without the reserved names, ascending, and    *)
(* the stack segment, the stack segment alone when only reserved names are *)
(* held; "%s" and "%v" print Error().                                      *)
C16_StructuredText ==
  ret.op = "Format" =>
    IF ret.verb \in {"%+v", "%#v"}
    THEN ret.text = Error(ret.err) \o ": " \o
                    Join(Append(UserParts(ret.err), StackPart(ret.err)))
    ELSE ret.verb \in {"%s", "%v"} => ret.text = Error(ret.err)

\* a wrapped error that holds a reserved name and two others is printed
C16_Witness ==
  /\ ret.op = "Format"
  /\ ret.verb = "%+v"
  /\ DOMAIN errs[ret.err].attrs = {"a", msgKey, "x"}
  /\ ret.text = "w: m: a=1 x=y stack=a.go:1 b.go:2"

(* C17: a bare argument that is a Log-Valuer rendering a group is expanded *)
(* inline: every member of its group is a top-level attribute of the       *)
(* result under its own name, and the argument is not one attribute under  *)
(* a single name.                                                          *)
C17_LogValuerInline ==
  Returned("Attr") =>
    LET meant == Meant(ret.args)
        res == ResultAttrs(ret.out)
    IN \A i \in DOMAIN meant :
         (meant[i].Key = badKey /\ meant[i].Value.kind = "LogValuer") =>
           /\ NamesOf(meant[i].Value.g) \subseteq NamesOf(res)
           /\ \A j \in DOMAIN res : res[j].Value # meant[i].Value

\* u is r or comes after r in the chain of Unwrap methods
RECURSIVE InChain(_, _)
InChain(r, u) ==
  \/ r = u
  \/ /\ r # 0
     /\ HasUnwrap(r)
     /\ InChain(UnwrapMethod(r), u)

(* C18: Unwrap(err) is the end of the chain of err: for a non-nil err it   *)
(* is non-nil, in the chain of err, and exposes no further cause; an error *)
(* without an Unwrap method is returned as it is; Unwrap(nil) is nil.      *)
C18_UnwrapEndOfChain ==
  /\ Unwrap(0) = 0
  /\ \A i \in DOMAIN errs :
       LET u == Unwrap(i)
       IN /\ u # 0
          /\ InChain(i, u)
          /\ HasUnwrap(u) => UnwrapMethod(u) = 0
          /\ ~HasUnwrap(i) => u = i

C13_SharedContextSafe ==
  /\ \A t \in Threads :
       calls[t].pc = "read" => MapOf(calls[t].ref) = calls[t].seen
  /\ \A t, u \in Threads :
       (/\ t # u
        /\ calls[t].pc = "write" /\ calls[t].todo # <<>>
        /\ calls[u].pc = "write" /\ calls[u].todo # <<>>) =>
         (calls[t].ref = 0 \/ calls[t].ref # calls[u].ref)

\* the flattened view of context c once the step is taken
FlatAfter(c) == IF c = 0 THEN EmptyMap ELSE maps'[ctxs'[c].am]

(* C11: the flattened view of Context(P, args...) is P's view overridden   *)
(* by the normalized args: a name the args produce has the attribute its   *)
(* right-most producer gave it, every other name of P keeps P's attribute, *)
(* and there is no other name.                                             *)
C11_ChildOverridesParent ==
  [][(ret'.op = "Context" /\ ~ret'.panic) =>
       LET prod == Produced(ret'.args, ret'.tie)
           parent == Flat(ret'.ctx)
           child == FlatAfter(ret'.res)
       IN /\ DOMAIN child = DOMAIN parent \cup NamesOf(prod)
          /\ \A k \in DOMAIN child :
               child[k] = IF k \in NamesOf(prod) THEN LastNamed(prod, k) ELSE parent[k]]_vars

\* a context that held a and x was extended with another value for a
C11_Witness ==
  /\ Returned("Context")
  /\ DOMAIN ret.view = {"a", "x"}
  /\ NamesOf(Produced(ret.args, ret.tie)) = {"a"}
  /\ Flat(ret.res)["a"] # ret.view["a"]
  /\ Flat(ret.res)["x"] = ret.view["x"]

\* the shape of the result: nothing, the one attribute, or the sorted group
C20_AttrOrdered ==
  Returned("Attr") =>
    LET n == Cardinality(NamesOf(Produced(ret.args, ret.tie)))
    IN /\ n = 0 => ret.out = ZeroAttr
       /\ n = 1 => /\ ret.out # ZeroAttr
                   /\ HoldsLastOf(<<ret.out>>, Produced(ret.args, ret.tie))
       /\ n >= 2 => /\ ret.out.Key = "" /\ ret.out.Value.kind = "Group"
                    /\ Len(ret.out.Value.g) = n
                    /\ HoldsLastOf(ret.out.Value.g, Produced(ret.args, ret.tie))
                    /\ \A i, j \in DOMAIN ret.out.Value.g :
                         i < j => KeyLess(ret.out.Value.g[i].Key, ret.out.Value.g[j].Key)

(* C20: Attr(args...) is deterministic and ordered by name: it returns the *)
(* zero attribute when normalization yields nothing, the attribute itself  *)
(* when it yields one, and an unnamed group of the attributes in strictly  *)
(* ascending name order when it yields two or more; the same args always   *)
(* give the same result, whatever the order in which equal names are       *)
(* sorted inside an error's LogValue().                                    *)
C20_AttrDeterministic ==
  /\ C20_AttrOrdered
  /\ ret.op = "Attr" =>
       \A tie \in Ties(ret.args) :
         LET p == ParseLogArgs(ret.args, tie)
         IN /\ p.panic = ret.panic
            /\ ~p.panic => AttrOf(ToSlice(p.am)) = ret.out

\* the attribute names of the error a call returned (none for a plain error)
HeldNames(r) == IF Structured(r) THEN DOMAIN errs[r].attrs ELSE {}

(* C21: wrapping never loses an attribute collected earlier: every         *)
(* attribute, other than "error", of a Structured Error in the chain of    *)
(* err is in the attribute set of Wrap(err, msg, args...), with the value  *)
(* an error of the chain holds for it unless args supply the name.         *)
C21_WrapAccumulates ==
  (Returned("Wrap") /\ ret.err # 0) =>
    \A u \in DOMAIN errs :
      (InChain(ret.err, u) /\ errs[u].type = "*sError") =>
        \A k \in DOMAIN errs[u].attrs \ {errKey} :
          /\ k \in HeldNames(ret.res)
          /\ k \notin NamesOf(Produced(ret.args, ret.tie)) =>
               \E v \in DOMAIN errs :
                 /\ InChain(ret.err, v) /\ errs[v].type = "*sError"
                 /\ k \in DOMAIN errs[v].attrs
                 /\ errs[ret.res].attrs[k] = errs[v].attrs[k]

(* C22: the result of Attr is an acceptable input of the normalizer: when  *)
(* the attribute loghelper.Attr returned is passed as the one argument of  *)
(* Attr, Context, New or Wrap (every call of SpecFeed), the call does not  *)
(* panic and gets exactly the attributes that result stands for: Attr      *)
(* returns it again, Context adds its names to the view, New and Wrap hold *)
(* its names (none when Attr collected none).                              *)
C22_AttrResultAccepted ==
  (/\ ret.op \in {"Attr", "Context", "New", "Wrap"}
   /\ Len(ret.args) = 1 /\ ret.args[1].t = "attr") =>
    LET got == NamesOf(ResultAttrs(ret.args[1].a))
    IN /\ ~ret.panic
       /\ ret.op = "Attr" => ret.out = ret.args[1].a
       /\ ret.op = "Context" => DOMAIN Flat(ret.res) = DOMAIN ret.view \cup got
       /\ ret.op = "New" => HeldNames(ret.res) = got
       /\ ret.op = "Wrap" => got \subseteq HeldNames(ret.res)

(* C23: in every Structured Error built by New and Wrap the stack is       *)
(* non-empty and its first entry is the error's origin; when the chain of  *)
(* err holds no Structured Error, Wrap with attributes takes the place of  *)
(* the call as origin and starts the stack with that one entry.            *)
C23_StackStartsAtOrigin ==
  /\ \A i \in DOMAIN errs :
       errs[i].type = "*sError" =>
         /\ Len(SliceElems(errs[i].stack)) >= 1
         /\ SliceElems(errs[i].stack)[1] = errs[i].origin
  /\ (Returned("Wrap") /\ Structured(ret.res) /\ As(ret.err, "*sError") = 0) =>
       /\ errs[ret.res].origin \in WrapSites
       /\ SliceElems(errs[ret.res].stack) = <<errs[ret.res].origin>>

\* a plain error behind a fmt.Errorf link was wrapped with an attribute, and
\* the result was wrapped again
C23_Witness ==
  /\ Returned("Wrap")
  /\ Structured(ret.err)
  /\ Len(SliceElems(errs[ret.res].stack)) = 2
  /\ errs[ret.err].err # 0
  /\ As(errs[ret.err].err, "*sError") = 0
  /\ Obj(errs[ret.err].err).type = "*wrapError"
  /\ errs[ret.res].origin = Site2

====
